---- MODULE Spec2Model ----
(***************************************************************************)
(* S3 file management and notification system.                             *)
(*                                                                         *)
(* The model follows the Python sources: the Uploader                      *)
(* (s3_file_uploader.py), the Reorganizer (move_files_in_s3.py), the Log   *)
(* Shipper (s3_log_uploader.py), the notification and bucket set-up        *)
(* (sns_manager.py, s3_bucket_manager.py) and the Driver (main.py).        *)
(*                                                                         *)
(* Strings (object keys, file names, messages) are sequences of tokens; a  *)
(* token is a run of characters that the code never looks inside           *)
(* ("sr1", ".csv"), the delimiters "_" and "/" are tokens of their own.    *)
(* Every remote call is one step and is recorded, with its outcome, in     *)
(* trace; a provider error (botocore ClientError) is a possible outcome of *)
(* every remote call.                                                      *)
(***************************************************************************)
EXTENDS Integers, Sequences, FiniteSets, TLC

VARIABLES
    store,              \* the bucket: object key -> stored bytes
    localDir,           \* the local CSV directory: [exists, files], files in os.listdir order
    topics,             \* the SNS topics that exist (their ARNs)
    subscription,       \* state of the e-mail subscription on the topic
    bucketExists,       \* whether head_bucket finds the bucket
    pc,                 \* position of the running function ("idle": none)
    mainStage,          \* 0: main is not running; 1..6: the stage main is at
    mainStatus,         \* how the last run of main went: none, running, completed, halted, raised
    ret,                \* what the last function call produced
    trace,              \* remote calls of the current top-level invocation
    stagesRun,          \* the functions entered in the current invocation, in order
    stageOk,            \* the success flags main's stages have returned, in order
    fnBase,             \* length of trace when the last function was entered
    keys,               \* the listing being iterated (Contents / os.listdir)
    i,                  \* index of the loop over keys
    j,                  \* index of the loop over sales_rep_files
    sales_rep_files,    \* ordered dict: <<[sr, files]>> in insertion order
    files_uploaded,     \* Uploader: names uploaded
    error_messages,     \* Uploader: per-file error messages
    existing_log_data,  \* Log Shipper: decoded text fetched from the log key
    new_log_data,       \* Log Shipper: text of the local log file (or NoFile)
    sns_topic_arn,      \* the topic ARN handed to the Reorganizer
    runs,               \* number of top-level invocations so far
    store0,             \* the bucket when the current invocation started
    reorgClean,         \* last thing that touched the bucket: a successful Reorganizer run
    afterReorg          \* the current invocation started with reorgClean

vars == <<store, localDir, topics, subscription, bucketExists, pc, mainStage, mainStatus, ret,
          trace, stagesRun, stageOk, fnBase, keys, i, j, sales_rep_files, files_uploaded,
          error_messages, existing_log_data, new_log_data, sns_topic_arn, runs,
          store0, reorgClean, afterReorg>>

----------------------------------------------------------------------------
(* Bounds of the model *)

\* objects in the bucket in the initial state
MaxInitObjs == 2
\* top-level invocations (main, or one component called on its own) in a behaviour
MaxRuns == 2
\* tokens of the stored log object
MaxLogLen == 3

----------------------------------------------------------------------------
(* Python string operations on token sequences *)

\* str.startswith
StartsWith(s, p) == Len(p) <= Len(s) /\ SubSeq(s, 1, Len(p)) = p

\* str.endswith
EndsWith(s, p) == Len(p) <= Len(s) /\ SubSeq(s, Len(s) - Len(p) + 1, Len(s)) = p

\* str.split(sep) for a one-character separator: the segments between separators
RECURSIVE SplitAcc(_, _, _)
SplitAcc(s, sep, cur) ==
    IF s = <<>> THEN <<cur>>
    ELSE IF Head(s) = sep THEN <<cur>> \o SplitAcc(Tail(s), sep, <<>>)
    ELSE SplitAcc(Tail(s), sep, Append(cur, Head(s)))

Split(s, sep) == SplitAcc(s, sep, <<>>)

\* sub in s (substring containment)
Contains(sub, s) ==
    \E n \in 0..(Len(s) - Len(sub)) : SubSeq(s, n + 1, n + Len(sub)) = sub

\* sep.join(parts)
RECURSIVE Join(_, _)
Join(sep, parts) ==
    IF parts = <<>> THEN <<>>
    ELSE IF Len(parts) = 1 THEN parts[1]
    ELSE parts[1] \o sep \o Join(sep, Tail(parts))

Range(f) == {f[x] : x \in DOMAIN f}

----------------------------------------------------------------------------
(* Constants of main.py *)

CSV_LOCAL_DIRECTORY == <<"./dct-sales-local">>
BUCKET_NAME == <<"dct-sales-mohamed-kittany">>
S3_BUCKET_SOURCE_PREFIX_DIR == <<"dct-sales", "/">>
LOCAL_LOG_FILE_NAME == <<"local_application_logs.log">>
LOG_S3_KEY_NAME == S3_BUCKET_SOURCE_PREFIX_DIR \o <<"application_logs.log">>
TOPIC_NAME == <<"EmailSalesRepFromS3Bucket">>
EMAIL_ADDRESS == <<"kittanyenterprise@gmail.com">>

----------------------------------------------------------------------------
(* The universe of the model: file names, object keys, contents *)

\* the SR identifier taken up to the last underscore instead of the first
SrIdentifierUpToLast(file_key) ==
    LET parts == Split(file_key, "_")
    IN  IF Len(parts) = 1 THEN parts[1] ELSE Join(<<"_">>, SubSeq(parts, 1, Len(parts) - 1))

\* move_files_in_s3.py: the SR identifier is what precedes the first underscore
SrIdentifier(file_key) == Split(file_key, "_")[1]

\* move_files_in_s3.py: the organized key of file_key
NewKey(source_prefix, file_key) ==
    source_prefix \o SrIdentifier(file_key) \o <<"/">> \o file_key

\* keys at the root of the bucket, in ascending (listing) order
RootKeys ==
    << <<"solo", ".csv">>,
       <<"sr1", "_", "cust", "_", "01", ".csv">>,
       <<"sr1", "_", "x", ".csv">>,
       <<"sr1", "_", "y", ".csv">>,
       <<"sr2", "_", "z", ".csv">>,
       <<"sr7", "_", "jan", ".csv">> >>

\* every key of the model in the order list_objects_v2 returns keys (ascending):
\* "dct-sales/..." sorts before the root keys, and within the prefix
\* "application_logs.log" sorts before the owners' directories
KeyOrder ==
    <<LOG_S3_KEY_NAME>>
    \o [n \in 1..Len(RootKeys) |-> NewKey(S3_BUCKET_SOURCE_PREFIX_DIR, RootKeys[n])]
    \o RootKeys

\* the local directories of the model (the first is missing): the files in
\* os.listdir order, with their bytes
LocalDirs ==
    { [exists |-> FALSE, files |-> << >>],
      [exists |-> TRUE, files |-> << >>],
      [exists |-> TRUE, files |->
      << [name |-> <<"readme", ".txt">>, body |-> <<"local-readme">>],
         [name |-> <<"sr1", "_", "x", ".csv">>, body |-> <<"local-x">>],
         [name |-> <<"sr1", "_", "y", ".csv">>, body |-> <<"local-y">>],
         [name |-> <<"sr2", "_", "z", ".csv">>, body |-> <<"local-z">>] >>],
      [exists |-> TRUE, files |->
      << [name |-> <<"solo", ".csv">>, body |-> <<"local-solo">>],
         [name |-> <<"sr1", "_", "x", ".csv">>, body |-> <<"local-x">>] >>] }

\* UTF-8: the characters of the model and their bytes
Utf8(c) == IF c = "e-acute" THEN <<"xC3", "xA9">> ELSE <<c>>

\* str.encode('utf-8')
RECURSIVE Encode(_)
Encode(text) == IF text = <<>> THEN <<>> ELSE Utf8(Head(text)) \o Encode(Tail(text))

DecodeError == <<"UnicodeDecodeError">>

\* bytes.decode('utf-8'): the text, or DecodeError for an invalid sequence
RECURSIVE Decode(_)
Decode(bytes) ==
    IF bytes = <<>> THEN <<>>
    ELSE IF Head(bytes) = "xC3"
         THEN IF Len(bytes) >= 2 /\ bytes[2] = "xA9"
              THEN LET rest == Decode(Tail(Tail(bytes)))
                   IN  IF rest = DecodeError THEN DecodeError ELSE <<"e-acute">> \o rest
              ELSE DecodeError
         ELSE IF Head(bytes) = "xA9" THEN DecodeError
         ELSE LET rest == Decode(Tail(bytes))
              IN  IF rest = DecodeError THEN DecodeError ELSE <<Head(bytes)>> \o rest

\* the local log file does not exist
NoFile == <<"NoFile">>

\* texts the local log file may hold when it is read
LogTexts == { <<"A">>, <<"B">>, <<"e-acute">> }

\* contents of the log object in the initial state (the last is not valid UTF-8)
InitLogs == { <<"B">>, <<"xC3">> }

\* the bytes of an object that is in the bucket from the start
InitBody(k) ==
    IF StartsWith(k, S3_BUCKET_SOURCE_PREFIX_DIR) THEN <<"old-organized">>
    ELSE <<"old-root">>

\* the buckets of the initial states: at most MaxInitObjs objects
InitStores ==
    { [k \in S |-> InitBody(k)] :
        S \in {T \in SUBSET (Range(KeyOrder) \ {LOG_S3_KEY_NAME}) : Cardinality(T) <= MaxInitObjs} }
    \cup { (LOG_S3_KEY_NAME :> b) : b \in InitLogs }

\* the ARN the provider assigns to the topic created with TOPIC_NAME
TopicArn == <<"arn:aws:sns:us-east-1:123456789012:">> \o TOPIC_NAME

----------------------------------------------------------------------------
(* The providers *)

\* list_objects_v2: the keys of the bucket, ascending
ListObjects(s) == SelectSeq(KeyOrder, LAMBDA k : k \in DOMAIN s)

\* delete_object
DeleteObject(s, k) == [x \in DOMAIN s \ {k} |-> s[x]]

\* put_object / upload_file / copy_object: key k now holds body
PutObject(s, k, body) == [x \in DOMAIN s \cup {k} |-> IF x = k THEN body ELSE s[x]]

\* botocore ClientError raised by operation op with error code code
ClientError(code, op) == [code |-> code, op |-> op]

\* str(e) of a ClientError
Str(e) == <<"An error occurred (", e.code, ") when calling the ", e.op, " operation">>

\* one remote call, as recorded in trace
Call(op, key, arg, res) == [op |-> op, key |-> key, arg |-> arg, res |-> res]

\* Python's None as a message
None == <<"None">>

NoRet == [kind |-> "none", ok |-> FALSE, msg |-> <<>>]
Returned(ok, msg) == [kind |-> "return", ok |-> ok, msg |-> msg]
Raised(exc) == [kind |-> "raise", ok |-> FALSE, msg |-> exc]

----------------------------------------------------------------------------
(* Initial state *)

Init ==
    /\ store \in InitStores
    /\ localDir \in LocalDirs
    /\ topics = <<>>
    /\ subscription = "none"
    /\ bucketExists = FALSE
    /\ pc = "idle"
    /\ mainStage = 0
    /\ mainStatus = "none"
    /\ ret = NoRet
    /\ trace = <<>>
    /\ stagesRun = <<>>
    /\ stageOk = <<>>
    /\ fnBase = 0
    /\ keys = <<>>
    /\ i = 1
    /\ j = 1
    /\ sales_rep_files = <<>>
    /\ files_uploaded = <<>>
    /\ error_messages = <<>>
    /\ existing_log_data = <<>>
    /\ new_log_data = <<>>
    /\ sns_topic_arn = <<>>
    /\ runs = 0
    /\ store0 = store
    /\ reorgClean = FALSE
    /\ afterReorg = FALSE

----------------------------------------------------------------------------
(* Calls and returns *)

env == <<localDir, topics, subscription, bucketExists>>
locals == <<keys, i, j, sales_rep_files, files_uploaded, error_messages,
            existing_log_data, new_log_data>>
hist == <<runs, store0, afterReorg>>
driver == <<mainStage, mainStatus, stagesRun, stageOk, fnBase, sns_topic_arn>>

\* a function starts with fresh locals
ResetLocals ==
    /\ keys' = <<>>
    /\ i' = 1
    /\ j' = 1
    /\ sales_rep_files' = <<>>
    /\ files_uploaded' = <<>>
    /\ error_messages' = <<>>
    /\ existing_log_data' = <<>>
    /\ new_log_data' = <<>>

\* the running function ends with r (a return value or an exception): control
\* goes back to main when main called it
Finish(r) ==
    /\ ret' = r
    /\ pc' = IF mainStage = 0 THEN "idle" ELSE "main_check"

\* a top-level invocation starts
StartRun ==
    /\ pc = "idle"
    /\ runs < MaxRuns
    /\ runs' = runs + 1
    /\ trace' = <<>>
    /\ store0' = store
    /\ afterReorg' = reorgClean
    /\ ret' = NoRet
    /\ stageOk' = <<>>
    /\ fnBase' = 0
    /\ ResetLocals
    /\ UNCHANGED <<store, env, reorgClean>>

\* upload_files_to_s3(BUCKET_NAME, CSV_LOCAL_DIRECTORY) called on its own
CallUpload ==
    /\ StartRun
    /\ pc' = "up_listdir"
    /\ stagesRun' = <<"upload_files_to_s3">>
    /\ mainStage' = 0
    /\ mainStatus' = "none"
    /\ UNCHANGED sns_topic_arn

\* move_and_clean_s3_objects(BUCKET_NAME, S3_BUCKET_SOURCE_PREFIX_DIR, arn) called on its own
CallReorg ==
    /\ StartRun
    /\ pc' = "mv_list"
    /\ stagesRun' = <<"move_and_clean_s3_objects">>
    /\ mainStage' = 0
    /\ mainStatus' = "none"
    /\ sns_topic_arn' = TopicArn

\* upload_log_to_s3(BUCKET_NAME, LOG_S3_KEY_NAME, LOCAL_LOG_FILE_NAME) called on its own
CallShipLog ==
    /\ StartRun
    /\ pc' = "log_get"
    /\ stagesRun' = <<"upload_log_to_s3">>
    /\ mainStage' = 0
    /\ mainStatus' = "none"
    /\ UNCHANGED sns_topic_arn

\* the outcomes of head_object on key k: found, not found (404), or another error
HeadOutcomes(s, k) == {IF k \in DOMAIN s THEN "ok" ELSE "404", "403"}

\* the outcomes of any other remote call: success or a provider error
CallOutcomes == {"ok", "AccessDenied"}

----------------------------------------------------------------------------
(* s3_file_uploader.py: upload_files_to_s3(bucket, csv_local_directory) *)

\* the key under the destination prefix and the owner's directory
UploadKeyOrganized(filename) == NewKey(S3_BUCKET_SOURCE_PREFIX_DIR, filename)

\* the key the Uploader checks and uploads a file to: the file name itself
UploadKey(filename) == filename

\* the result message of the Uploader
UploadMessage(uploaded) ==
    IF uploaded # <<>>
    THEN <<"Uploaded files: ">> \o Join(<<", ">>, uploaded)
    ELSE <<"No need to upload. Files already exist.">>

\* for filename in os.listdir(csv_local_directory)
UploadListdir ==
    /\ pc = "up_listdir"
    /\ IF localDir.exists
       THEN /\ keys' = [n \in 1..Len(localDir.files) |-> localDir.files[n].name]
            /\ pc' = "up_loop"
            /\ UNCHANGED ret
       ELSE /\ Finish(Raised(<<"FileNotFoundError">>))
            /\ UNCHANGED keys
    /\ UNCHANGED <<store, env, driver, hist, trace, reorgClean, i, j, sales_rep_files,
                   files_uploaded, error_messages, existing_log_data, new_log_data>>

\* one file of the directory: the extension filter, then file_exists_in_s3
UploadLoop ==
    /\ pc = "up_loop"
    /\ i <= Len(keys)
    /\ LET filename == keys[i]
       IN  IF ~EndsWith(filename, <<".csv">>)
           THEN /\ i' = i + 1
                /\ UNCHANGED <<pc, ret, trace>>
           ELSE \E out \in HeadOutcomes(store, UploadKey(filename)) :
                  /\ trace' = Append(trace, Call("head_object", UploadKey(filename), <<>>, out))
                  /\ IF out = "ok"
                     THEN i' = i + 1 /\ UNCHANGED <<pc, ret>>
                     ELSE IF out = "404"
                     THEN pc' = "up_put" /\ UNCHANGED <<i, ret>>
                     ELSE Finish(Raised(Str(ClientError(out, "HeadObject")))) /\ UNCHANGED i
    /\ UNCHANGED <<store, env, driver, hist, reorgClean, keys, j, sales_rep_files,
                   files_uploaded, error_messages, existing_log_data, new_log_data>>

\* s3_client.upload_file(file_path, bucket, filename) and its except ClientError
UploadFile ==
    /\ pc = "up_put"
    /\ LET filename == keys[i]
           body == localDir.files[i].body
       IN  \E out \in CallOutcomes :
             /\ trace' = Append(trace, Call("upload_file", UploadKey(filename), body, out))
             /\ IF out = "ok"
                THEN /\ store' = PutObject(store, UploadKey(filename), body)
                     /\ files_uploaded' = Append(files_uploaded, filename)
                     /\ reorgClean' = FALSE
                     /\ UNCHANGED error_messages
                ELSE /\ error_messages' = Append(error_messages,
                            <<"Failed to upload ">> \o filename \o <<". Error: ">>
                            \o Str(ClientError(out, "PutObject")))
                     /\ UNCHANGED <<store, files_uploaded, reorgClean>>
    /\ i' = i + 1
    /\ pc' = "up_loop"
    /\ UNCHANGED <<env, driver, hist, ret, keys, j, sales_rep_files,
                   existing_log_data, new_log_data>>

\* after the loop: the Uploader reports success
UploadReturn ==
    /\ pc = "up_loop"
    /\ i > Len(keys)
    /\ Finish(Returned(TRUE, UploadMessage(files_uploaded)))
    /\ UNCHANGED <<store, env, driver, hist, trace, reorgClean, locals>>

----------------------------------------------------------------------------
(* move_files_in_s3.py: move_and_clean_s3_objects(bucket_name, source_prefix, sns_topic_arn) *)

\* a new entry for every file, whether or not the SR has one
AlwaysNewEntry(d, sr, file_key) == Append(d, [sr |-> sr, files |-> <<file_key>>])

\* sales_rep_files.setdefault(sr, []).append(file_key) on the insertion-ordered dict
SetDefaultAppend(d, sr, file_key) ==
    IF \E n \in 1..Len(d) : d[n].sr = sr
    THEN [n \in 1..Len(d) |->
            IF d[n].sr = sr THEN [d[n] EXCEPT !.files = Append(@, file_key)] ELSE d[n]]
    ELSE Append(d, [sr |-> sr, files |-> <<file_key>>])

\* the notification of one SR: subject and message
Subject(sr) == <<"Files Moved Notification for SR">> \o sr
Message(sr, files) == <<"Files moved for SR">> \o sr \o <<": ">> \o Join(<<", ">>, files)

\* the two success messages
NothingToDo == <<"No files were moved or deleted.">>
Relocated == <<"Files successfully moved and notifications sent.">>

\* the final return alone, without the early one
ReorgResultAlwaysRelocated(d) == Returned(TRUE, Relocated)

\* what the function returns when the loops have completed
ReorgResult(d) == IF d = <<>> THEN Returned(TRUE, NothingToDo) ELSE Returned(TRUE, Relocated)

\* the failure result without the provider's detail
ReorgErrorNoDetail(e) == Returned(FALSE, <<"An AWS client error occurred: ">>)

\* except ClientError as e: return False, error_msg
ReorgError(e) == Returned(FALSE, <<"An AWS client error occurred: ">> \o Str(e))

\* the loop without its prefix test
AlreadyOrganizedNever(file_key, source_prefix) == FALSE

\* whether the loop skips file_key as already organized
AlreadyOrganized(file_key, source_prefix) == StartsWith(file_key, source_prefix)

\* response = s3_client.list_objects_v2(Bucket=bucket_name)
ReorgList ==
    /\ pc = "mv_list"
    /\ \E out \in CallOutcomes :
         /\ trace' = Append(trace, Call("list_objects_v2", <<>>, <<>>, out))
         /\ IF out = "ok"
            THEN keys' = ListObjects(store) /\ pc' = "mv_loop" /\ UNCHANGED ret
            ELSE Finish(ReorgError(ClientError(out, "ListObjectsV2"))) /\ UNCHANGED keys
    /\ UNCHANGED <<store, env, driver, hist, reorgClean, i, j, sales_rep_files,
                   files_uploaded, error_messages, existing_log_data, new_log_data>>

\* one listed key: the prefix test, then key_exists on its new key
ReorgLoop ==
    /\ pc = "mv_loop"
    /\ i <= Len(keys)
    /\ LET file_key == keys[i]
           new_key == NewKey(S3_BUCKET_SOURCE_PREFIX_DIR, file_key)
       IN  IF AlreadyOrganized(file_key, S3_BUCKET_SOURCE_PREFIX_DIR)
           THEN /\ i' = i + 1
                /\ UNCHANGED <<pc, ret, trace>>
           ELSE \E out \in HeadOutcomes(store, new_key) :
                  /\ trace' = Append(trace, Call("head_object", new_key, <<>>, out))
                  /\ UNCHANGED i
                  /\ IF out = "404"
                     THEN pc' = "mv_copy" /\ UNCHANGED ret
                     ELSE IF out = "ok"
                     THEN pc' = "mv_delete_dup" /\ UNCHANGED ret
                     ELSE Finish(ReorgError(ClientError(out, "HeadObject")))
    /\ UNCHANGED <<store, env, driver, hist, reorgClean, keys, j, sales_rep_files,
                   files_uploaded, error_messages, existing_log_data, new_log_data>>

\* s3_client.copy_object(Bucket=bucket_name, CopySource=copy_source, Key=new_key)
ReorgCopy ==
    /\ pc = "mv_copy"
    /\ LET file_key == keys[i]
           new_key == NewKey(S3_BUCKET_SOURCE_PREFIX_DIR, file_key)
       IN  \E out \in (IF file_key \in DOMAIN store THEN CallOutcomes ELSE {"NoSuchKey"}) :
             /\ trace' = Append(trace, Call("copy_object", new_key, file_key, out))
             /\ IF out = "ok"
                THEN /\ store' = PutObject(store, new_key, store[file_key])
                     /\ reorgClean' = FALSE
                     /\ pc' = "mv_delete"
                     /\ UNCHANGED ret
                ELSE /\ Finish(ReorgError(ClientError(out, "CopyObject")))
                     /\ UNCHANGED <<store, reorgClean>>
    /\ UNCHANGED <<env, driver, hist, locals>>

\* s3_client.delete_object(Bucket=bucket_name, Key=file_key) after the copy, and
\* the entry in sales_rep_files
ReorgDelete ==
    /\ pc = "mv_delete"
    /\ LET file_key == keys[i]
       IN  \E out \in CallOutcomes :
             /\ trace' = Append(trace, Call("delete_object", file_key, <<>>, out))
             /\ IF out = "ok"
                THEN /\ store' = DeleteObject(store, file_key)
                     /\ reorgClean' = FALSE
                     /\ sales_rep_files' =
                            SetDefaultAppend(sales_rep_files, SrIdentifier(file_key), file_key)
                     /\ i' = i + 1
                     /\ pc' = "mv_loop"
                     /\ UNCHANGED ret
                ELSE /\ Finish(ReorgError(ClientError(out, "DeleteObject")))
                     /\ UNCHANGED <<store, reorgClean, sales_rep_files, i>>
    /\ UNCHANGED <<env, driver, hist, keys, j, files_uploaded, error_messages,
                   existing_log_data, new_log_data>>

\* the else branch recording the deleted duplicate as a moved file
ReorgDeleteDuplicateRecorded ==
    /\ pc = "mv_delete_dup"
    /\ LET file_key == keys[i]
       IN  \E out \in CallOutcomes :
             /\ trace' = Append(trace, Call("delete_object", file_key, <<>>, out))
             /\ IF out = "ok"
                THEN /\ store' = DeleteObject(store, file_key)
                     /\ reorgClean' = FALSE
                     /\ sales_rep_files' =
                            SetDefaultAppend(sales_rep_files, SrIdentifier(file_key), file_key)
                     /\ i' = i + 1
                     /\ pc' = "mv_loop"
                     /\ UNCHANGED ret
                ELSE /\ Finish(ReorgError(ClientError(out, "DeleteObject")))
                     /\ UNCHANGED <<store, reorgClean, sales_rep_files, i>>
    /\ UNCHANGED <<env, driver, hist, keys, j, files_uploaded, error_messages,
                   existing_log_data, new_log_data>>

\* the else branch: the new key exists, the original is deleted as a duplicate
ReorgDeleteDuplicate ==
    /\ pc = "mv_delete_dup"
    /\ LET file_key == keys[i]
       IN  \E out \in CallOutcomes :
             /\ trace' = Append(trace, Call("delete_object", file_key, <<>>, out))
             /\ IF out = "ok"
                THEN /\ store' = DeleteObject(store, file_key)
                     /\ reorgClean' = FALSE
                     /\ i' = i + 1
                     /\ pc' = "mv_loop"
                     /\ UNCHANGED ret
                ELSE /\ Finish(ReorgError(ClientError(out, "DeleteObject")))
                     /\ UNCHANGED <<store, reorgClean, i>>
    /\ UNCHANGED <<env, driver, hist, keys, j, sales_rep_files, files_uploaded,
                   error_messages, existing_log_data, new_log_data>>

\* for sr, files in sales_rep_files.items(): sns_client.publish(...)
ReorgPublish ==
    /\ pc = "mv_loop"
    /\ i > Len(keys)
    /\ j <= Len(sales_rep_files)
    /\ LET sr == sales_rep_files[j].sr
           files == sales_rep_files[j].files
       IN  \E out \in CallOutcomes :
             /\ trace' = Append(trace, Call("publish", Subject(sr), Message(sr, files), out))
             /\ IF out = "ok"
                THEN j' = j + 1 /\ UNCHANGED <<pc, ret>>
                ELSE Finish(ReorgError(ClientError(out, "Publish"))) /\ UNCHANGED j
    /\ UNCHANGED <<store, env, driver, hist, reorgClean, keys, i, sales_rep_files,
                   files_uploaded, error_messages, existing_log_data, new_log_data>>

\* the two successful returns
ReorgReturn ==
    /\ pc = "mv_loop"
    /\ i > Len(keys)
    /\ j > Len(sales_rep_files)
    /\ Finish(ReorgResult(sales_rep_files))
    /\ reorgClean' = TRUE
    /\ UNCHANGED <<store, env, driver, hist, trace, locals>>

----------------------------------------------------------------------------
(* s3_log_uploader.py: upload_log_to_s3(bucket, key, local_log_file) *)

\* the new log data alone
CombinedOverwrite(existing, new) == new

\* combined_log_data = existing_log_data + new_log_data
Combined(existing, new) == existing \o new

\* response = s3_client.get_object(...); response['Body'].read().decode('utf-8')
ShipGet ==
    /\ pc = "log_get"
    /\ \E out \in {IF LOG_S3_KEY_NAME \in DOMAIN store THEN "ok" ELSE "NoSuchKey", "AccessDenied"} :
         /\ trace' = Append(trace, Call("get_object", LOG_S3_KEY_NAME, <<>>, out))
         /\ IF out = "ok"
            THEN LET text == Decode(store[LOG_S3_KEY_NAME])
                 IN  IF text = DecodeError
                     THEN Finish(Returned(FALSE, DecodeError)) /\ UNCHANGED existing_log_data
                     ELSE existing_log_data' = text /\ pc' = "log_read" /\ UNCHANGED ret
            ELSE IF out = "NoSuchKey"
            THEN existing_log_data' = <<>> /\ pc' = "log_read" /\ UNCHANGED ret
            ELSE /\ Finish(Returned(FALSE, Str(ClientError(out, "GetObject"))))
                 /\ UNCHANGED existing_log_data
    /\ UNCHANGED <<store, env, driver, hist, reorgClean, keys, i, j, sales_rep_files,
                   files_uploaded, error_messages, new_log_data>>

\* with open(local_log_file, 'r') as file: new_log_data = file.read()
ShipRead ==
    /\ pc = "log_read"
    /\ \E text \in LogTexts \cup {NoFile} :
         /\ text # NoFile => Len(Encode(Combined(existing_log_data, text))) <= MaxLogLen
         /\ new_log_data' = text
         /\ IF text = NoFile
            THEN Finish(Returned(FALSE, <<"FileNotFoundError">>))
            ELSE pc' = "log_put" /\ UNCHANGED ret
    /\ UNCHANGED <<store, env, driver, hist, trace, reorgClean, keys, i, j, sales_rep_files,
                   files_uploaded, error_messages, existing_log_data>>

\* s3_client.put_object(Bucket=bucket, Key=key, Body=combined_log_data.encode('utf-8'))
ShipPut ==
    /\ pc = "log_put"
    /\ LET body == Encode(Combined(existing_log_data, new_log_data))
       IN  \E out \in CallOutcomes :
             /\ trace' = Append(trace, Call("put_object", LOG_S3_KEY_NAME, body, out))
             /\ IF out = "ok"
                THEN /\ store' = PutObject(store, LOG_S3_KEY_NAME, body)
                     /\ reorgClean' = FALSE
                     /\ Finish(Returned(TRUE, None))
                ELSE /\ Finish(Returned(FALSE, Str(ClientError(out, "PutObject"))))
                     /\ UNCHANGED <<store, reorgClean>>
    /\ UNCHANGED <<env, driver, hist, locals>>

----------------------------------------------------------------------------
(* sns_manager.py and s3_bucket_manager.py: the set-up stages *)

\* the remote calls of a stage, appended to trace
Calls(cs) == trace' = trace \o cs

\* get_sns_topic_arn(topic_name), with create_sns_topic
GetSnsTopicArn ==
    /\ pc = "topic"
    /\ \E outList \in {"ok", "AuthorizationError"}, outCreate \in {"ok", "AuthorizationError"} :
         LET found == SelectSeq(topics, LAMBDA arn : Contains(TOPIC_NAME, arn))
             list == Call("list_topics", <<>>, <<>>, outList)
             create == Call("create_topic", TOPIC_NAME, <<>>, outCreate)
         IN  IF outList # "ok"
             THEN /\ Calls(<<list>>)
                  /\ Finish(Returned(FALSE, Str(ClientError(outList, "ListTopics"))))
                  /\ UNCHANGED topics
             ELSE IF found # <<>>
             THEN /\ Calls(<<list>>)
                  /\ Finish(Returned(TRUE, found[1]))
                  /\ UNCHANGED topics
             ELSE IF outCreate = "ok"
             THEN /\ Calls(<<list, create>>)
                  /\ topics' = Append(topics, TopicArn)
                  /\ Finish(Returned(TRUE, TopicArn))
             ELSE /\ Calls(<<list, create>>)
                  /\ Finish(Returned(FALSE, Str(ClientError(outCreate, "CreateTopic"))))
                  /\ UNCHANGED topics
    /\ UNCHANGED <<store, localDir, subscription, bucketExists, driver, hist, reorgClean, locals>>

\* subscribe_email_to_topic(topic_arn, email_address)
SubscribeEmail ==
    /\ pc = "sub"
    /\ \E outList \in {"ok", "AuthorizationError"}, outSub \in {"ok", "AuthorizationError"} :
         LET list == Call("list_subscriptions_by_topic", sns_topic_arn, <<>>, outList)
             sub == Call("subscribe", sns_topic_arn, EMAIL_ADDRESS, outSub)
         IN  IF outList # "ok"
             THEN /\ Calls(<<list>>)
                  /\ Finish(Returned(FALSE, Str(ClientError(outList, "ListSubscriptionsByTopic"))))
                  /\ UNCHANGED subscription
             ELSE IF subscription = "pending"
             THEN /\ Calls(<<list>>)
                  /\ Finish(Returned(TRUE, <<"Pending confirmation">>))
                  /\ UNCHANGED subscription
             ELSE IF subscription = "confirmed"
             THEN /\ Calls(<<list>>)
                  /\ Finish(Returned(TRUE, None))
                  /\ UNCHANGED subscription
             ELSE IF outSub = "ok"
             THEN /\ Calls(<<list, sub>>)
                  /\ subscription' = "pending"
                  /\ Finish(Returned(TRUE, None))
             ELSE /\ Calls(<<list, sub>>)
                  /\ Finish(Returned(FALSE, Str(ClientError(outSub, "Subscribe"))))
                  /\ UNCHANGED subscription
    /\ UNCHANGED <<store, localDir, topics, bucketExists, driver, hist, reorgClean, locals>>

\* check_create_bucket(bucket_name), with create_bucket
CheckCreateBucket ==
    /\ pc = "bucket"
    /\ \E outHead \in {IF bucketExists THEN "ok" ELSE "404", "403"},
          outCreate \in {"ok", "AccessDenied"},
          region_name \in {"us-east-1", "eu-west-1"} :
         LET head == Call("head_bucket", BUCKET_NAME, <<>>, outHead)
             create == Call("create_bucket", BUCKET_NAME,
                            IF region_name = "us-east-1" THEN <<>> ELSE <<region_name>>,
                            outCreate)
         IN  IF outHead = "ok"
             THEN /\ Calls(<<head>>)
                  /\ Finish(Returned(TRUE, None))
                  /\ UNCHANGED bucketExists
             ELSE IF outHead # "404"
             THEN /\ Calls(<<head>>)
                  /\ Finish(Returned(FALSE, Str(ClientError(outHead, "HeadBucket"))))
                  /\ UNCHANGED bucketExists
             ELSE IF outCreate = "ok"
             THEN /\ Calls(<<head, create>>)
                  /\ bucketExists' = TRUE
                  /\ Finish(Returned(TRUE, None))
             ELSE /\ Calls(<<head, create>>)
                  /\ Finish(Returned(FALSE, Str(ClientError(outCreate, "CreateBucket"))))
                  /\ UNCHANGED bucketExists
    /\ UNCHANGED <<store, localDir, topics, subscription, driver, hist, reorgClean, locals>>

----------------------------------------------------------------------------
(* main.py: main() *)

\* the stages of main in order: the function called and the number of
\* positional arguments main passes
Stages ==
    << [fn |-> "get_sns_topic_arn", nargs |-> 1],
       [fn |-> "subscribe_email_to_topic", nargs |-> 2],
       [fn |-> "check_create_bucket", nargs |-> 1],
       [fn |-> "upload_files_to_s3", nargs |-> 3],
       [fn |-> "move_and_clean_s3_objects", nargs |-> 3],
       [fn |-> "upload_log_to_s3", nargs |-> 3] >>

\* the number of parameters each function is defined with
Arity(fn) ==
    CASE fn = "get_sns_topic_arn" -> 1
      [] fn = "subscribe_email_to_topic" -> 2
      [] fn = "check_create_bucket" -> 1
      [] fn = "upload_files_to_s3" -> 2
      [] fn = "move_and_clean_s3_objects" -> 3
      [] fn = "upload_log_to_s3" -> 3

\* where each function starts
Entry(fn) ==
    CASE fn = "get_sns_topic_arn" -> "topic"
      [] fn = "subscribe_email_to_topic" -> "sub"
      [] fn = "check_create_bucket" -> "bucket"
      [] fn = "upload_files_to_s3" -> "up_listdir"
      [] fn = "move_and_clean_s3_objects" -> "mv_list"
      [] fn = "upload_log_to_s3" -> "log_get"

\* main() is run
CallMain ==
    /\ StartRun
    /\ pc' = "main_call"
    /\ stagesRun' = <<>>
    /\ mainStage' = 1
    /\ mainStatus' = "running"
    /\ sns_topic_arn' = <<>>

\* main leaves (by return or by an exception): nothing is running any more
MainEnds(status) ==
    /\ pc' = "idle"
    /\ mainStage' = 0
    /\ mainStatus' = status

\* success, message = <stage function>(...): a call with the wrong number of
\* arguments raises TypeError before the function body runs
MainCall ==
    /\ pc = "main_call"
    /\ LET stage == Stages[mainStage]
       IN  IF stage.nargs = Arity(stage.fn)
           THEN /\ pc' = Entry(stage.fn)
                /\ stagesRun' = Append(stagesRun, stage.fn)
                /\ fnBase' = Len(trace)
                /\ ResetLocals
                /\ UNCHANGED <<mainStage, mainStatus, ret>>
           ELSE /\ MainEnds("raised")
                /\ ret' = Raised(<<"TypeError">>)
                /\ UNCHANGED <<stagesRun, fnBase, locals>>
    /\ UNCHANGED <<store, env, hist, trace, reorgClean, stageOk, sns_topic_arn>>

\* if not success: log_and_print_error_message(...); return -- else the next stage
MainCheck ==
    /\ pc = "main_check"
    /\ stageOk' = IF ret.kind = "raise" THEN stageOk ELSE Append(stageOk, ret.ok)
    /\ IF ret.kind = "raise"
       THEN MainEnds("raised") /\ UNCHANGED sns_topic_arn
       ELSE IF ~ret.ok
       THEN MainEnds("halted") /\ UNCHANGED sns_topic_arn
       ELSE IF mainStage = Len(Stages)
       THEN MainEnds("completed") /\ UNCHANGED sns_topic_arn
       ELSE /\ mainStage' = mainStage + 1
            /\ pc' = "main_call"
            /\ sns_topic_arn' = IF mainStage = 1 THEN ret.msg ELSE sns_topic_arn
            /\ UNCHANGED mainStatus
    /\ UNCHANGED <<store, env, hist, trace, reorgClean, ret, stagesRun, fnBase, locals>>

----------------------------------------------------------------------------
(* The system *)

Next ==
    \/ CallUpload
    \/ CallReorg
    \/ CallShipLog
    \/ CallMain
    \/ UploadListdir
    \/ UploadLoop
    \/ UploadFile
    \/ UploadReturn
    \/ ReorgList
    \/ ReorgLoop
    \/ ReorgCopy
    \/ ReorgDelete
    \/ ReorgDeleteDuplicate
    \/ ReorgPublish
    \/ ReorgReturn
    \/ ShipGet
    \/ ShipRead
    \/ ShipPut
    \/ GetSnsTopicArn
    \/ SubscribeEmail
    \/ CheckCreateBucket
    \/ MainCall
    \/ MainCheck

Spec == Init /\ [][Next]_vars

----------------------------------------------------------------------------
(* Vocabulary of the properties *)

\* the remote calls of the function entered last
FnTrace == SubSeq(trace, fnBase + 1, Len(trace))

\* the function entered last in the current invocation
CurFn == IF stagesRun = <<>> THEN "none" ELSE stagesRun[Len(stagesRun)]

ReorgPcs == {"mv_list", "mv_loop", "mv_copy", "mv_delete", "mv_delete_dup"}
UploadPcs == {"up_listdir", "up_loop", "up_put"}
ShipPcs == {"log_get", "log_read", "log_put"}

\* FnTrace and ret are those of a Reorganizer invocation (running or finished)
ReorgRun == CurFn = "move_and_clean_s3_objects"
\* ... which has ended, with ret its result
ReorgEnded == ReorgRun /\ pc \notin ReorgPcs
\* ... by returning success
ReorgSucceeded == ReorgEnded /\ ret.kind = "return" /\ ret.ok

UploadRun == CurFn = "upload_files_to_s3"
UploadEnded == UploadRun /\ pc \notin UploadPcs

ShipRun == CurFn = "upload_log_to_s3"
ShipSucceeded == ShipRun /\ pc \notin ShipPcs /\ ret.kind = "return" /\ ret.ok

\* a remote call that ended in a provider error: "not found" from an existence
\* check or from the fetch of the log is a normal answer
Failed(c) ==
    ~ \/ c.res = "ok"
      \/ c.op \in {"head_object", "head_bucket"} /\ c.res = "404"
      \/ c.op = "get_object" /\ c.res = "NoSuchKey"

\* the owner identifier of key k as the specification defines it: what precedes
\* the first "_", the whole key when there is none
OwnerOf(k) ==
    IF \A n \in 1..Len(k) : k[n] # "_" THEN k
    ELSE LET first == CHOOSE n \in 1..Len(k) :
                         k[n] = "_" /\ \A m \in 1..(n - 1) : k[m] # "_"
         IN  SubSeq(k, 1, first - 1)

\* the destination key of k as the specification defines it
DestOf(k) == S3_BUCKET_SOURCE_PREFIX_DIR \o OwnerOf(k) \o <<"/">> \o k

\* the original keys the current Reorganizer invocation has relocated (copied
\* and then deleted), in the order processed
RECURSIVE MovedIn(_)
MovedIn(t) ==
    IF Len(t) < 2 THEN <<>>
    ELSE IF /\ t[1].op = "copy_object" /\ t[1].res = "ok"
            /\ t[2].op = "delete_object" /\ t[2].res = "ok" /\ t[2].key = t[1].arg
         THEN <<t[1].arg>> \o MovedIn(Tail(t))
         ELSE MovedIn(Tail(t))

Moved == MovedIn(FnTrace)

\* the notifications the current function has published (attempts that the
\* provider refused included)
Publishes == SelectSeq(FnTrace, LAMBDA c : c.op = "publish")

\* the recognized files of the local directory
CsvIndexes == {n \in 1..Len(localDir.files) : EndsWith(localDir.files[n].name, <<".csv">>)}
CsvNames == {localDir.files[n].name : n \in CsvIndexes}

----------------------------------------------------------------------------
(* C1: Reorganizer idempotence *)

----------------------------------------------------------------------------
(* C2: upload, then reorganize, through main *)

\* whether notification c names owner o in its subject and lists, for owner o,
\* every file of fs
Notifies(c, o, fs) ==
    /\ EndsWith(c.key, o)
    /\ \A f \in fs : OwnerOf(f) = o => Contains(f, c.arg)

\* C2: main has run on an empty bucket with no provider error: every CSV file f
\* of the local directory is at destination_prefix + owner(f) + "/" + f and not
\* at f, and exactly one notification per distinct owner has been published,
\* listing the owner's files.
C2_EndToEnd ==
    ( /\ pc = "idle"
      /\ mainStatus \in {"completed", "halted", "raised"}
      /\ DOMAIN store0 = {}
      /\ localDir.exists
      /\ \A n \in 1..Len(trace) : ~Failed(trace[n]) )
    => LET pubs == SelectSeq(trace, LAMBDA c : c.op = "publish")
           owners == {OwnerOf(f) : f \in CsvNames}
       IN  /\ \A n \in CsvIndexes :
                LET f == localDir.files[n].name
                IN  /\ DestOf(f) \in DOMAIN store
                    /\ store[DestOf(f)] = localDir.files[n].body
                    /\ f \notin DOMAIN store
           /\ Len(pubs) = Cardinality(owners)
           /\ \A o \in owners : \E n \in 1..Len(pubs) : Notifies(pubs[n], o, CsvNames)

----------------------------------------------------------------------------
(* C3: duplicates *)

\* the listed keys the Reorganizer does not skip whose new key is d
SourcesOf(d) ==
    {k \in Range(keys) : ~StartsWith(k, S3_BUCKET_SOURCE_PREFIX_DIR)
                         /\ NewKey(S3_BUCKET_SOURCE_PREFIX_DIR, k) = d}

\* C3: in a Reorganizer run, when the destination d of a processed key k holds an
\* object: the next remote call is the delete of k, which removes k unless the
\* provider refuses it; nothing is copied onto d and d keeps its object; k is in
\* no relocation list and in no notification of the run.
C3_Duplicate ==
    ReorgRun =>
        \A n \in 1..Len(FnTrace) :
            (FnTrace[n].op = "head_object" /\ FnTrace[n].res = "ok") =>
                LET d == FnTrace[n].key
                IN  /\ SourcesOf(d) # {}
                    /\ \A k \in SourcesOf(d) :
                         /\ n < Len(FnTrace) =>
                               /\ FnTrace[n + 1].op = "delete_object"
                               /\ FnTrace[n + 1].key = k
                               /\ FnTrace[n + 1].res = "ok" => k \notin DOMAIN store
                         /\ ReorgSucceeded => k \notin DOMAIN store
                         /\ \A m \in 1..Len(FnTrace) :
                               ~(FnTrace[m].op = "copy_object" /\ FnTrace[m].key = d)
                         /\ d \in DOMAIN store0 /\ d \in DOMAIN store /\ store[d] = store0[d]
                         /\ \A m \in 1..Len(sales_rep_files) :
                               k \notin Range(sales_rep_files[m].files)
                         /\ \A m \in 1..Len(Publishes) : ~Contains(k, Publishes[m].arg)

\* a run has succeeded that deleted a duplicate and relocated and notified other keys
C3_Witness ==
    /\ ReorgSucceeded
    /\ \E n \in 1..Len(FnTrace) : FnTrace[n].op = "head_object" /\ FnTrace[n].res = "ok"
    /\ Moved # <<>>
    /\ Publishes # <<>>

----------------------------------------------------------------------------
(* C4: one notification per owner *)

\* the keys of the sequence ks whose owner is o, in order
OfOwner(ks, o) == SelectSeq(ks, LAMBDA k : OwnerOf(k) = o)

\* C4: a successful Reorganizer run has published exactly one notification for
\* each owner of a relocated key and none for any other owner; its subject names
\* the owner and its body lists the owner's relocated keys in the order processed.
C4_Grouped ==
    ReorgSucceeded =>
        LET owners == {OwnerOf(Moved[n]) : n \in 1..Len(Moved)}
        IN  /\ Len(Publishes) = Cardinality(owners)
            /\ \A o \in owners :
                 \E n \in 1..Len(Publishes) :
                    /\ Publishes[n].res = "ok"
                    /\ Publishes[n].key = <<"Files Moved Notification for SR">> \o o
                    /\ Publishes[n].arg =
                          <<"Files moved for SR">> \o o \o <<": ">>
                          \o Join(<<", ">>, OfOwner(Moved, o))
                    /\ \A m \in 1..Len(Publishes) :
                          Publishes[m].key = Publishes[n].key => m = n

\* a successful run relocated two keys of one owner and a key of another
C4_Witness ==
    /\ ReorgSucceeded
    /\ Len(Publishes) = 2
    /\ Len(Moved) = 3

----------------------------------------------------------------------------
(* C5: the destination key *)

\* the key the Reorganizer is handling between its existence check and the end
\* of its copy and delete
Handling == ReorgRun /\ pc \in {"mv_copy", "mv_delete", "mv_delete_dup"}

\* C5: for every key k the Reorganizer processes, the owner identifier is what
\* precedes the first "_" of k (k itself when it has none) and the key it checks,
\* and copies to, is destination_prefix + owner + "/" + k; the relocation list k
\* is recorded in is that owner's.
C5_Destination ==
    /\ Handling =>
          /\ FnTrace[Len(FnTrace)].op \in {"head_object", "copy_object"}
          /\ FnTrace[Len(FnTrace)].key = DestOf(keys[i])
    /\ ReorgRun =>
          /\ \A n \in 1..Len(FnTrace) :
                FnTrace[n].op = "copy_object" => FnTrace[n].key = DestOf(FnTrace[n].arg)
          /\ \A n \in 1..Len(sales_rep_files) :
                \A k \in Range(sales_rep_files[n].files) :
                    sales_rep_files[n].sr = OwnerOf(k)
    /\ NewKey(S3_BUCKET_SOURCE_PREFIX_DIR, <<"sr7", "_", "jan", ".csv">>)
          = <<"dct-sales", "/", "sr7", "/", "sr7", "_", "jan", ".csv">>
    /\ SrIdentifier(<<"solo", ".csv">>) = <<"solo", ".csv">>

\* the Reorganizer has relocated sr7_jan.csv, a key with two delimiters and a key
\* with none
C5_Witness ==
    /\ ReorgRun
    /\ \E n \in 1..Len(FnTrace) :
          /\ FnTrace[n].op = "copy_object" /\ FnTrace[n].res = "ok"
          /\ FnTrace[n].arg = <<"sr7", "_", "jan", ".csv">>
          /\ FnTrace[n].key = <<"dct-sales", "/", "sr7", "/", "sr7", "_", "jan", ".csv">>
    /\ \E n \in 1..Len(FnTrace) :
          /\ FnTrace[n].op = "copy_object" /\ FnTrace[n].res = "ok"
          /\ FnTrace[n].arg \in { <<"solo", ".csv">>, <<"sr1", "_", "cust", "_", "01", ".csv">> }

----------------------------------------------------------------------------
(* C6: what the Uploader uploads, and where *)

\* the bytes of the local file named f
LocalBody(f) == localDir.files[CHOOSE n \in 1..Len(localDir.files) : localDir.files[n].name = f].body

\* C6 as amended: the Uploader checks and uploads at the key f itself. For every
\* CSV file f it reaches it attempts the upload exactly when no object exists at
\* key f, and a successful upload leaves f's bytes at key f.
C6_UploadAtRoot ==
    UploadRun =>
        \A n \in 1..Len(FnTrace) :
            LET c == FnTrace[n]
            IN  /\ c.op \in {"head_object", "upload_file"}
                /\ c.key \in CsvNames
                /\ c.op = "head_object" =>
                      /\ c.res = "ok" => c.key \in DOMAIN store0
                      /\ c.res = "404" => c.key \notin DOMAIN store0
                      /\ n < Len(FnTrace) =>
                            (c.res = "404" <=> /\ FnTrace[n + 1].op = "upload_file"
                                               /\ FnTrace[n + 1].key = c.key)
                      /\ n = Len(FnTrace) => (c.res = "404" <=> pc = "up_put")
                /\ c.op = "upload_file" =>
                      /\ n > 1
                      /\ FnTrace[n - 1] = Call("head_object", c.key, <<>>, "404")
                      /\ c.arg = LocalBody(c.key)
                      /\ c.res = "ok" => c.key \in DOMAIN store /\ store[c.key] = c.arg

\* the Uploader has uploaded, to the root, a file that already lies under its
\* owner's prefix
C6_Witness ==
    /\ UploadEnded
    /\ \E n \in 1..Len(FnTrace) :
          /\ FnTrace[n].op = "upload_file" /\ FnTrace[n].res = "ok"
          /\ DestOf(FnTrace[n].key) \in DOMAIN store0
          /\ FnTrace[n].key \in DOMAIN store

\* C6 as stated: the Uploader uploads f exactly when no object exists at
\* destinationPrefix + owner(f) + "/" + f, and writes f's bytes to that key, so a
\* file already under its owner prefix is not uploaded again.
C6_SkipIfOrganized ==
    UploadRun =>
        /\ \A n \in 1..Len(FnTrace) :
              (FnTrace[n].op = "upload_file" /\ FnTrace[n].res = "ok") =>
                  \E m \in CsvIndexes :
                      /\ FnTrace[n].key = DestOf(localDir.files[m].name)
                      /\ FnTrace[n].key \notin DOMAIN store0
                      /\ store[FnTrace[n].key] = localDir.files[m].body
        /\ (UploadEnded /\ ret.kind = "return" /\ \A n \in 1..Len(FnTrace) : ~Failed(FnTrace[n])) =>
              \A f \in CsvNames : DestOf(f) \in DOMAIN store

----------------------------------------------------------------------------
(* C7: the log is appended *)

\* the bytes at the log key when the invocation started (none: empty)
LogBefore == IF LOG_S3_KEY_NAME \in DOMAIN store0 THEN store0[LOG_S3_KEY_NAME] ELSE <<>>

\* C7: after a successful upload_log_to_s3 the log key holds the bytes it held
\* before (nothing, when the key was missing) followed by the UTF-8 bytes of the
\* local log's text.
C7_LogAppended ==
    ShipSucceeded =>
        /\ LOG_S3_KEY_NAME \in DOMAIN store
        /\ store[LOG_S3_KEY_NAME] = LogBefore \o Encode(new_log_data)

\* "A" was shipped to the missing log key by a first run, "B" by the second
C7_Witness ==
    /\ ShipSucceeded
    /\ runs = 2
    /\ LogBefore = <<"A">>
    /\ new_log_data = <<"B">>
    /\ store[LOG_S3_KEY_NAME] = <<"A", "B">>

----------------------------------------------------------------------------
(* C8: the "nothing to do" outcome *)

\* C8: a successful Reorganizer run returns the "nothing to do" message exactly
\* when it relocated no key, and the other message otherwise; with "nothing to
\* do" it has published no notification.
C8_NothingToDo ==
    ReorgSucceeded =>
        /\ ret.msg = <<"No files were moved or deleted.">> <=> Moved = <<>>
        /\ Moved # <<>> => ret.msg = <<"Files successfully moved and notifications sent.">>
        /\ ret.msg = <<"No files were moved or deleted.">> => Publishes = <<>>

\* "nothing to do" after a run that only deleted a duplicate
C8_Witness ==
    /\ ReorgSucceeded
    /\ ret.msg = <<"No files were moved or deleted.">>
    /\ \E n \in 1..Len(FnTrace) : FnTrace[n].op = "delete_object" /\ FnTrace[n].res = "ok"

----------------------------------------------------------------------------
(* C9: the Driver *)

\* C9: main enters its stages in the order topic, subscribe, bucket, upload,
\* reorganize, ship log; a stage is entered only after every earlier stage
\* reported success; and when no stage reports failure all six stages run.
C9_DriverOrder ==
    mainStatus # "none" =>
        /\ Len(stagesRun) <= Len(Stages)
        /\ \A n \in 1..Len(stagesRun) : stagesRun[n] = Stages[n].fn
        /\ \A n \in 1..(Len(stagesRun) - 1) : n <= Len(stageOk) /\ stageOk[n]
        /\ (pc = "idle" /\ \A n \in 1..Len(stageOk) : stageOk[n]) =>
              Len(stagesRun) = Len(Stages)

----------------------------------------------------------------------------
(* C10: failure of the Reorganizer *)

\* C10: in a Reorganizer invocation a provider error is the last remote call
\* made; the invocation then has returned failure with the provider's error
\* detail in its message; a failure is returned for no other reason; and every
\* key relocated stays at its destination, with its bytes, whatever follows.
C10_Failure ==
    ReorgRun =>
        /\ \A n \in 1..Len(FnTrace) :
              Failed(FnTrace[n]) =>
                  /\ n = Len(FnTrace)
                  /\ ReorgEnded
                  /\ ret.kind = "return" /\ ~ret.ok
                  /\ Len(ret.msg) >= 3
                  /\ SubSeq(ret.msg, 2, 3) = <<"An error occurred (", FnTrace[n].res>>
        /\ (ReorgEnded /\ ~ret.ok) =>
              /\ ret.kind = "return"
              /\ Len(FnTrace) >= 1 /\ Failed(FnTrace[Len(FnTrace)])
        /\ \A n \in 1..Len(Moved) :
              /\ Moved[n] \notin DOMAIN store
              /\ DestOf(Moved[n]) \in DOMAIN store
              /\ store[DestOf(Moved[n])] = store0[Moved[n]]

\* a provider error after a key was relocated
C10_Witness ==
    /\ ReorgEnded
    /\ ~ret.ok
    /\ Moved # <<>>
    /\ Failed(FnTrace[Len(FnTrace)])

----------------------------------------------------------------------------
(* C11: no error leaves a component *)

\* C11: every stage operation ends by returning a (success flag, message) pair,
\* whatever provider or local I/O error occurs inside it (a non-not-found error
\* of an existence check and a missing local directory included), and a run of
\* main ends by returning, never by an exception.
C11_NoEscape ==
    /\ ret.kind # "raise"
    /\ mainStatus # "raised"

----------------------------------------------------------------------------
(* C12: partial failure of the Uploader *)

\* the upload attempts of the current function that the provider refused
FailedUploads == SelectSeq(FnTrace, LAMBDA c : c.op = "upload_file" /\ Failed(c))

\* C12: when the Uploader's loop has completed, every recognized file of the
\* directory has been attempted whatever uploads failed before it, the result
\* is success, and the result message contains the error message of every file
\* whose upload failed.
C12_PartialFailure ==
    (UploadEnded /\ ret.kind = "return") =>
        /\ ret.ok
        /\ \A f \in CsvNames :
             \E n \in 1..Len(FnTrace) :
                 FnTrace[n].op = "head_object" /\ FnTrace[n].key = f
        /\ \A n \in 1..Len(FailedUploads) :
             Contains(Str(ClientError(FailedUploads[n].res, "PutObject")), ret.msg)

----------------------------------------------------------------------------
(* C13: every relocation is notified *)

\* C13: when an invocation of the Reorganizer has ended, in success or in
\* failure at any provider call, every original key it copied to its destination
\* and deleted is named in the body of a notification that the same invocation
\* published.
C13_RelocationNotified ==
    ReorgEnded =>
        \A n \in 1..Len(Moved) :
            \E m \in 1..Len(Publishes) :
                /\ Publishes[m].res = "ok"
                /\ Contains(Moved[n], Publishes[m].arg)

====
